---- MODULE Spec2Model ----
(***************************************************************************)
(* Supabase SSR glue of mazunte-connect: the browser AuthProvider and its  *)
(* accessor, the useSessionContext hook that mirrors the client's session  *)
(* into component state, and the two server-side cookie bridges (edge      *)
(* middleware, tRPC context).                                              *)
(***************************************************************************)
EXTENDS Integers, Sequences, FiniteSets, TLC

\* ------------------------------------------------------------------ bounds
MaxLifetimes == 2     \* provider mounts explored
MaxRenders == 2       \* renders of one mounted provider
MaxEvents == 2        \* auth change events emitted
MaxCalls == 2         \* setAll calls during one request

\* ------------------------------------------------------------ value sets
NoSession == "null"
Sessions == {"s1", "s2"}
Payloads == Sessions \cup {NoSession}
Scopes == {"c1", "c2"}   \* component instances using useSessionContext
NoClient == 0

VARIABLES
  \* AuthProvider.tsx
  providerMounted,   \* an AuthProvider is in the tree
  supabase,          \* the client held by the provider's useState cell
  created,           \* clients constructed by createBrowserClient so far
  renders,           \* renders of the current provider instance
  builtHere,         \* clients constructed during the current provider lifetime
  firstClient,       \* the client the current provider published on its first render
  lastCall,          \* the most recent useSupabaseClient() call and its outcome
  returned,          \* clients returned by accessor calls in the current lifetime
  \* useSessionContext
  status,            \* scope -> "unmounted" | "mounted" | "torndown"
  session,           \* scope -> useState<Session | null> cell
  isLoading,         \* scope -> useState(true) cell
  fetch,             \* scope -> "idle" | "pending" | "resolved" (the getSession promise)
  fetchResult,       \* scope -> what getSession resolved with
  listeners,         \* scopes whose onAuthStateChange callback is registered on the client
  emitted,           \* auth change events emitted so far
  lastEvent,         \* payload of the most recent change event
  lastDelivered,     \* scope -> payload handed to the scope's most recent callback
  \* server-side cookie bridges
  phase,             \* request -> "idle" | "open" | "done"
  kind,              \* request -> "middleware" | "trpc"
  incoming,          \* request -> cookies the request arrived with
  reqCookies,        \* request -> the jar getAll() reads
  resCookies,        \* request -> cookies on the outgoing response
  forwarded,         \* request -> cookies of the request forwarded with the response
  calls,             \* request -> the setAll argument lists, in call order
  got,               \* request -> result of the most recent getAll()
  clients            \* request -> server clients constructed for the request

clientVars == <<providerMounted, supabase, created, renders, builtHere, firstClient,
                lastCall, returned, status, session, isLoading, fetch, fetchResult,
                listeners, emitted, lastEvent, lastDelivered>>
serverVars == <<phase, kind, incoming, reqCookies, resCookies, forwarded, calls, got,
                clients>>
vars == <<clientVars, serverVars>>

providerVars == <<providerMounted, supabase, created, renders, builtHere, firstClient>>
mirrorVars == <<status, session, isLoading, fetch, fetchResult, listeners, emitted,
                lastEvent, lastDelivered>>

\* ------------------------------------------------------- AuthProvider.tsx

\* createContext<SupabaseContext | undefined>(undefined)
ContextDefault == [defined |-> FALSE, supabase |-> NoClient]

\* useContext(Context) for a component inside / outside the Provider element.
useContext(inside) ==
  IF inside /\ providerMounted
    THEN [defined |-> TRUE, supabase |-> supabase]
    ELSE ContextDefault

\* Fault variant: the undefined-context check is missing.
useSupabaseClientUnguarded(context) == [threw |-> FALSE, value |-> context.supabase]

\* useSupabaseClient: throws when the context is undefined, else context.supabase.
useSupabaseClient(context) ==
  IF context = ContextDefault
    THEN [threw |-> TRUE, value |-> NoClient]
    ELSE [threw |-> FALSE, value |-> context.supabase]

\* Fault variant: createBrowserClient runs on every render (no lazy initialiser).
AuthProviderRenderEager(first, held, made) ==
  [supabase |-> made + 1, created |-> made + 1, built |-> 1]

\* One render of AuthProvider: useState(() => createBrowserClient(...)) runs the
\* initialiser on the first render only and returns the held client afterwards.
AuthProviderRender(first, held, made) ==
  IF first
    THEN [supabase |-> made + 1, created |-> made + 1, built |-> 1]
    ELSE [supabase |-> held, created |-> made, built |-> 0]

NoCall == [made |-> FALSE, inside |-> FALSE, provided |-> NoClient,
           threw |-> FALSE, value |-> NoClient]

MountProvider ==
  /\ ~providerMounted
  /\ created < MaxLifetimes
  /\ LET r == AuthProviderRender(TRUE, NoClient, created) IN
       /\ supabase' = r.supabase
       /\ created' = r.created
       /\ builtHere' = r.built
       /\ firstClient' = r.supabase
  /\ providerMounted' = TRUE
  /\ renders' = 1
  /\ returned' = {}
  /\ UNCHANGED <<lastCall, mirrorVars, serverVars>>

RerenderProvider ==
  /\ providerMounted
  /\ renders < MaxRenders
  /\ LET r == AuthProviderRender(FALSE, supabase, created) IN
       /\ supabase' = r.supabase
       /\ created' = r.created
       /\ builtHere' = builtHere + r.built
  /\ renders' = renders + 1
  /\ UNCHANGED <<providerMounted, firstClient, lastCall, returned, mirrorVars, serverVars>>

\* A component calls useSupabaseClient(); one inside the subtree exists only
\* while the provider is mounted.
CallAccessor(inside) ==
  /\ inside => providerMounted
  /\ LET r == useSupabaseClient(useContext(inside)) IN
       /\ lastCall' = [made |-> TRUE, inside |-> inside,
                       provided |-> IF inside THEN supabase ELSE NoClient,
                       threw |-> r.threw, value |-> r.value]
       /\ returned' = IF r.threw \/ ~inside THEN returned ELSE returned \cup {r.value}
  /\ UNCHANGED <<providerVars, mirrorVars, serverVars>>

\* --------------------------------------------------- useSessionContext

\* Fault variant: the cell outlives its component (a store outside React state).
setStateDetached(alive, current, next) == next

\* A useState setter: the update is applied to the component instance that
\* owns the cell; React discards updates addressed to an unmounted instance.
setState(alive, current, next) == IF alive THEN next ELSE current

Alive(s) == status[s] = "mounted"

\* The effect body: getSession() is issued and the change listener registered.
MountScope(s) ==
  /\ providerMounted
  /\ status[s] = "unmounted"
  /\ ~useSupabaseClient(useContext(TRUE)).threw
  /\ status' = [status EXCEPT ![s] = "mounted"]
  /\ fetch' = [fetch EXCEPT ![s] = "pending"]
  /\ listeners' = listeners \cup {s}
  /\ UNCHANGED <<providerVars, lastCall, returned, session, isLoading, fetchResult,
                 emitted, lastEvent, lastDelivered, serverVars>>

\* Fault variant: the fetch result is dropped once an event has stored a session.
getSessionThenKeepEvent(alive, cur, loading, result) ==
  [session |-> IF loading /\ cur = NoSession THEN setState(alive, cur, result) ELSE cur,
   isLoading |-> setState(alive, loading, FALSE)]

\* .then(({ data: { session } }) => { setSession(session); setIsLoading(false) })
getSessionThen(alive, cur, loading, result) ==
  [session |-> setState(alive, cur, result),
   isLoading |-> setState(alive, loading, FALSE)]

ResolveGetSession(s, result) ==
  /\ fetch[s] = "pending"
  /\ LET r == getSessionThen(Alive(s), session[s], isLoading[s], result) IN
       /\ session' = [session EXCEPT ![s] = r.session]
       /\ isLoading' = [isLoading EXCEPT ![s] = r.isLoading]
  /\ fetch' = [fetch EXCEPT ![s] = "resolved"]
  /\ fetchResult' = [fetchResult EXCEPT ![s] = result]
  /\ lastDelivered' = IF Alive(s) THEN [lastDelivered EXCEPT ![s] = result]
                                  ELSE lastDelivered
  /\ UNCHANGED <<providerVars, lastCall, returned, status, listeners, emitted,
                 lastEvent, serverVars>>

\* Fault variant: a null payload keeps the previous session.
onAuthStateChangeMerge(alive, cur, loading, payload) ==
  [session |-> IF payload = NoSession THEN cur ELSE setState(alive, cur, payload),
   isLoading |-> loading]

\* Fault variant: the listener also clears isLoading.
onAuthStateChangeClearsLoading(alive, cur, loading, payload) ==
  [session |-> setState(alive, cur, payload),
   isLoading |-> setState(alive, loading, FALSE)]

\* (_event, session) => { setSession(session) }: isLoading is not touched.
onAuthStateChange(alive, cur, loading, payload) ==
  [session |-> setState(alive, cur, payload),
   isLoading |-> loading]

\* The client emits a change event and calls every registered listener.
AuthStateChange(payload) ==
  /\ emitted < MaxEvents
  /\ emitted' = emitted + 1
  /\ lastEvent' = payload
  /\ session' = [s \in Scopes |->
                   IF s \in listeners
                     THEN onAuthStateChange(Alive(s), session[s], isLoading[s],
                                            payload).session
                     ELSE session[s]]
  /\ isLoading' = [s \in Scopes |->
                     IF s \in listeners
                       THEN onAuthStateChange(Alive(s), session[s], isLoading[s],
                                              payload).isLoading
                       ELSE isLoading[s]]
  /\ lastDelivered' = [s \in Scopes |->
                         IF s \in listeners /\ Alive(s) THEN payload
                                                         ELSE lastDelivered[s]]
  /\ UNCHANGED <<providerVars, lastCall, returned, status, fetch, fetchResult,
                 listeners, serverVars>>

\* Fault variant: the effect returns no unsubscribe.
cleanupLeaky(subs, s) == subs

\* return () => subscription.unsubscribe()
cleanup(subs, s) == subs \ {s}

TeardownScope(s) ==
  /\ status[s] = "mounted"
  /\ status' = [status EXCEPT ![s] = "torndown"]
  /\ listeners' = cleanup(listeners, s)
  /\ UNCHANGED <<providerVars, lastCall, returned, session, isLoading, fetch,
                 fetchResult, emitted, lastEvent, lastDelivered, serverVars>>

RECURSIVE cleanupAll(_, _)
cleanupAll(subs, ss) ==
  IF ss = {} THEN subs
  ELSE LET s == CHOOSE x \in ss : TRUE IN cleanupAll(cleanup(subs, s), ss \ {s})

\* Unmounting the provider unmounts its subtree: every mounted scope runs its
\* effect cleanup.
UnmountProvider ==
  /\ providerMounted
  /\ providerMounted' = FALSE
  /\ status' = [s \in Scopes |-> IF status[s] = "mounted" THEN "torndown" ELSE status[s]]
  /\ listeners' = cleanupAll(listeners, {s \in Scopes : status[s] = "mounted"})
  /\ UNCHANGED <<supabase, created, renders, builtHere, firstClient, lastCall, returned,
                 session, isLoading, fetch, fetchResult, emitted, lastEvent,
                 lastDelivered, serverVars>>

InitClient ==
  /\ providerMounted = FALSE
  /\ supabase = NoClient
  /\ created = 0
  /\ renders = 0
  /\ builtHere = 0
  /\ firstClient = NoClient
  /\ lastCall = NoCall
  /\ returned = {}
  /\ status = [s \in Scopes |-> "unmounted"]
  /\ session = [s \in Scopes |-> NoSession]
  /\ isLoading = [s \in Scopes |-> TRUE]
  /\ fetch = [s \in Scopes |-> "idle"]
  /\ fetchResult = [s \in Scopes |-> NoSession]
  /\ listeners = {}
  /\ emitted = 0
  /\ lastEvent = NoSession
  /\ lastDelivered = [s \in Scopes |-> NoSession]

\* ------------------------------------------------ server-side cookie bridges

Requests == {"r1", "r2"}
Kinds == {"middleware", "trpc"}
Names == {"a", "b"}
Absent == "absent"
NoCookie == [value |-> Absent, options |-> Absent]

Cookie(n, v, o) == [name |-> n, value |-> v, options |-> o]

\* Cookie jars a request can arrive with.
IncomingJars == { [n \in Names |-> Absent],
                  [n \in Names |-> IF n = "a" THEN "1" ELSE "2"] }

\* Argument lists the SDK passes to setAll.
CookieLists == { <<Cookie("a", "3", "/")>>,
                 <<Cookie("b", "4", "/app")>>,
                 <<Cookie("a", "5", "/app"), Cookie("b", "3", "/")>> }

EmptyResponse == [n \in Names |-> NoCookie]

\* cookies.getAll(): the {name, value} pairs present in the jar.
getAll(jar) == { [name |-> n, value |-> jar[n]] : n \in {m \in Names : jar[m] # Absent} }

\* cookiesToSet.forEach(({ name, value }) => req.cookies.set(name, value))
RECURSIVE setEachNameValue(_, _)
setEachNameValue(jar, list) ==
  IF list = <<>> THEN jar
  ELSE setEachNameValue([jar EXCEPT ![Head(list).name] = Head(list).value], Tail(list))

\* cookiesToSet.forEach(({ name, value, options }) => cookies.set(name, value, options))
RECURSIVE setEachWithOptions(_, _)
setEachWithOptions(jar, list) ==
  IF list = <<>> THEN jar
  ELSE setEachWithOptions(
         [jar EXCEPT ![Head(list).name] =
            [value |-> Head(list).value, options |-> Head(list).options]],
         Tail(list))

\* middleware setAll: the request jar is updated, res is REPLACED by a fresh
\* NextResponse.next({ request: { headers: req.headers } }) that forwards the
\* updated request, and the list is written onto that fresh response.
middlewareSetAll(st, list) ==
  LET req == setEachNameValue(st.req, list) IN
    [req |-> req, res |-> setEachWithOptions(EmptyResponse, list), fwd |-> req]

\* tRPC setAll: every triple is set on the one cookiesStore of the request,
\* which serves getAll() and carries the outgoing Set-Cookie entries.
trpcSetAll(st, list) ==
  [req |-> setEachNameValue(st.req, list),
   res |-> setEachWithOptions(st.res, list),
   fwd |-> st.fwd]

bridgeSetAll(k, st, list) ==
  IF k = "middleware" THEN middlewareSetAll(st, list) ELSE trpcSetAll(st, list)

\* Fault variant: req / res hoisted to module scope, shared by all requests.
capturedShared(r) == "r1"

\* The request whose req / res / cookiesStore the callbacks of request r close
\* over: the objects of r's own invocation.
captured(r) == r

\* Fault variant: a second client is constructed for the same request.
createServerClientTwice(n) == n + 2

\* const supabase = createServerClient(...): one construction per invocation.
createServerClient(n) == n + 1

BeginRequest(r, k, jar) ==
  /\ phase[r] = "idle"
  /\ phase' = [phase EXCEPT ![r] = "open"]
  /\ kind' = [kind EXCEPT ![r] = k]
  /\ incoming' = [incoming EXCEPT ![r] = jar]
  /\ reqCookies' = [reqCookies EXCEPT ![r] = jar]
  /\ resCookies' = [resCookies EXCEPT ![r] = EmptyResponse]
  /\ forwarded' = [forwarded EXCEPT ![r] = jar]
  /\ clients' = [clients EXCEPT ![r] = createServerClient(clients[r])]
  /\ UNCHANGED <<calls, got, clientVars>>

GetAll(r) ==
  /\ phase[r] = "open"
  /\ got' = [got EXCEPT ![r] = getAll(reqCookies[captured(r)])]
  /\ UNCHANGED <<phase, kind, incoming, reqCookies, resCookies, forwarded, calls,
                 clients, clientVars>>

SetAll(r, list) ==
  /\ phase[r] = "open"
  /\ Len(calls[r]) < MaxCalls
  /\ LET t == captured(r)
         st == bridgeSetAll(kind[r],
                            [req |-> reqCookies[t], res |-> resCookies[t],
                             fwd |-> forwarded[t]],
                            list)
     IN /\ reqCookies' = [reqCookies EXCEPT ![t] = st.req]
        /\ resCookies' = [resCookies EXCEPT ![t] = st.res]
        /\ forwarded' = [forwarded EXCEPT ![t] = st.fwd]
  /\ calls' = [calls EXCEPT ![r] = Append(calls[r], list)]
  /\ UNCHANGED <<phase, kind, incoming, got, clients, clientVars>>

\* The handler returns res (middleware) / the context (tRPC).
FinishRequest(r) ==
  /\ phase[r] = "open"
  /\ phase' = [phase EXCEPT ![r] = "done"]
  /\ UNCHANGED <<kind, incoming, reqCookies, resCookies, forwarded, calls, got,
                 clients, clientVars>>

InitServer ==
  /\ phase = [r \in Requests |-> "idle"]
  /\ kind = [r \in Requests |-> "middleware"]
  /\ incoming = [r \in Requests |-> [n \in Names |-> Absent]]
  /\ reqCookies = [r \in Requests |-> [n \in Names |-> Absent]]
  /\ resCookies = [r \in Requests |-> EmptyResponse]
  /\ forwarded = [r \in Requests |-> [n \in Names |-> Absent]]
  /\ calls = [r \in Requests |-> <<>>]
  /\ got = [r \in Requests |-> {}]
  /\ clients = [r \in Requests |-> 0]

\* ------------------------------------------------------- specifications

Init == InitClient /\ InitServer

NextClient ==
  \/ MountProvider
  \/ RerenderProvider
  \/ UnmountProvider
  \/ \E inside \in BOOLEAN : CallAccessor(inside)
  \/ \E s \in Scopes : MountScope(s)
  \/ \E s \in Scopes, result \in Payloads : ResolveGetSession(s, result)
  \/ \E payload \in Payloads : AuthStateChange(payload)
  \/ \E s \in Scopes : TeardownScope(s)

NextServer ==
  \/ \E r \in Requests, k \in Kinds, jar \in IncomingJars : BeginRequest(r, k, jar)
  \/ \E r \in Requests : GetAll(r)
  \/ \E r \in Requests, list \in CookieLists : SetAll(r, list)
  \/ \E r \in Requests : FinishRequest(r)

Next == NextClient \/ NextServer

\* Browser side: the provider, its accessor and the session mirror.
SpecClient == Init /\ [][NextClient]_vars

\* Server side: concurrent requests through the two cookie bridges.
SpecServer == Init /\ [][NextServer]_vars

\* ------------------------------------------------------------- properties

\* C1: isLoading of a session mirror starts true, changes only from true to
\* false and only in the step in which the scope's getSession promise
\* resolves; a resolution reaching a mounted scope always leaves it false, and
\* no auth change event alters it.
C1_IsLoadingFlipsOnce ==
  [][\A s \in Scopes :
       /\ status[s] = "unmounted" => isLoading[s]
       /\ isLoading'[s] # isLoading[s] =>
            /\ isLoading[s] /\ ~isLoading'[s]
            /\ fetch[s] = "pending" /\ fetch'[s] = "resolved"
       /\ (Alive(s) /\ fetch[s] = "pending" /\ fetch'[s] = "resolved") => ~isLoading'[s]
       /\ emitted' # emitted => isLoading'[s] = isLoading[s]]_vars

\* A mounted scope whose fetch resolved, with change events delivered as well.
C1_Witness ==
  \E s \in Scopes :
    Alive(s) /\ fetch[s] = "resolved" /\ ~isLoading[s] /\ emitted >= 2 /\ s \in listeners

\* C2: when an auth change event is delivered, the session of every subscribed
\* scope becomes exactly the event's payload, null included.
C2_EventReplacesSession ==
  [][emitted' = emitted + 1 => \A s \in listeners : session'[s] = lastEvent']_vars

\* A subscribed scope that got a non-null session from its fetch and then a
\* null event: the null replaced it.
C2_Witness ==
  \E s \in listeners :
    /\ emitted >= 1 /\ lastEvent = NoSession /\ session[s] = NoSession
    /\ fetch[s] = "resolved" /\ fetchResult[s] # NoSession /\ ~isLoading[s]

\* C3: teardown unsubscribes: a torn-down scope is not among the client's
\* listeners, and a change event emitted afterwards leaves its session and
\* isLoading as they were.
C3_NoEventAfterTeardown ==
  [][\A s \in Scopes :
       /\ status'[s] = "torndown" => s \notin listeners'
       /\ (status[s] = "torndown" /\ emitted' # emitted) =>
            (session'[s] = session[s] /\ isLoading'[s] = isLoading[s])]_vars

\* A torn-down scope written only by events, whose session differs from the
\* latest event: that event was emitted after the teardown.
C3_Witness ==
  \E s \in Scopes :
    /\ status[s] = "torndown" /\ s \notin listeners /\ fetch[s] = "pending"
    /\ emitted = 2 /\ session[s] = "s1" /\ lastEvent = "s2"

\* C4: a useSupabaseClient() call throws exactly when it is made outside a
\* mounted AuthProvider subtree; inside one it returns the provider's client.
C4_AccessorThrowsIffOutside ==
  lastCall.made =>
    /\ lastCall.threw <=> ~lastCall.inside
    /\ lastCall.inside => (lastCall.value = lastCall.provided /\ lastCall.value # NoClient)

\* After a mount / unmount / mount cycle, a call outside the subtree threw while
\* a provider was mounted.
C4_Witness ==
  providerMounted /\ created = 2 /\ lastCall.made /\ ~lastCall.inside /\ lastCall.threw

\* C5: while an AuthProvider is mounted, exactly one client has been
\* constructed in its lifetime, the provider still holds it after any number
\* of re-renders, and accessor calls in the subtree returned only that client.
C5_OneClientPerLifetime ==
  providerMounted =>
    /\ builtHere = 1
    /\ supabase = firstClient
    /\ returned \subseteq {firstClient}

\* A re-rendered provider whose client was handed out by the accessor.
C5_Witness ==
  providerMounted /\ renders >= 2 /\ returned = {firstClient} /\ created = 2

\* The cookies a sequence of setAll calls asks for: each name's latest triple.
RECURSIVE Requested(_, _)
Requested(jar, log) ==
  IF log = <<>> THEN jar ELSE Requested(setEachWithOptions(jar, Head(log)), Tail(log))

\* C6: in the middleware bridge the outgoing response carries every triple
\* passed to any setAll call of the request (latest write per name, options
\* intact) and the forwarded request carries each name's latest value.
C6_ResponseCarriesEverySetAll ==
  \A r \in Requests :
    (phase[r] # "idle" /\ kind[r] = "middleware") =>
      \A n \in Names :
        LET want == Requested(EmptyResponse, calls[r])[n] IN
          want # NoCookie => (resCookies[r][n] = want /\ forwarded[r][n] = want.value)

\* C7: a middleware request and a tRPC request that arrived with the same
\* cookies and received the same setAll calls return the same getAll result
\* and carry the same cookies on the outgoing response.
C7_BridgesIdentical ==
  \A r1, r2 \in Requests :
    ( /\ phase[r1] # "idle" /\ phase[r2] # "idle"
      /\ kind[r1] = "middleware" /\ kind[r2] = "trpc"
      /\ incoming[r1] = incoming[r2]
      /\ calls[r1] = calls[r2] ) =>
        /\ getAll(reqCookies[r1]) = getAll(reqCookies[r2])
        /\ resCookies[r1] = resCookies[r2]

\* C8: every started request has constructed exactly one server client, and a
\* step leaves untouched the cookie view and the response of every request
\* that made no setAll call in it.
C8_RequestsIsolated ==
  [][\A r \in Requests :
       /\ phase'[r] # "idle" => clients'[r] = 1
       /\ (calls'[r] = calls[r] /\ phase[r] # "idle") =>
            /\ getAll(reqCookies'[r]) = getAll(reqCookies[r])
            /\ resCookies'[r] = resCookies[r]
            /\ forwarded'[r] = forwarded[r]]_vars

\* Two requests in flight at once, each having written different cookies.
C8_Witness ==
  /\ \A r \in Requests : phase[r] = "open" /\ calls[r] # <<>> /\ clients[r] = 1
  /\ resCookies["r1"] # resCookies["r2"]
  /\ reqCookies["r1"] # reqCookies["r2"]

C10_LastCallbackWins ==
  [][\A s \in Scopes :
       /\ status'[s] = "mounted" => session'[s] = lastDelivered'[s]
       /\ (Alive(s) /\ fetch[s] = "pending" /\ fetch'[s] = "resolved") =>
            session'[s] = fetchResult'[s]]_vars

\* A mounted scope that received an event and then the fetch result, which
\* replaced the event's payload.
C10_Witness ==
  \E s \in Scopes :
    /\ Alive(s) /\ fetch[s] = "resolved" /\ emitted = 1
    /\ lastEvent = "s1" /\ fetchResult[s] = "s2" /\ session[s] = "s2"

====
